---- MODULE Spec2Model ----
(***************************************************************************)
(* Model of the M-Pesa payment gateway core:                               *)
(*   MpesaService      (src/src/services/mpesa.service.ts)                 *)
(*   PaymentController (src/src/controllers/payment.controller.ts)         *)
(*                                                                         *)
(* Time is the millisecond clock read by `new Date()` / `Date.now()`.      *)
(* A JavaScript `undefined` (an absent JSON field) in a string-typed       *)
(* position is the value Undefined; a JavaScript number is a tagged        *)
(* record so that NaN and strings holding digits stay distinct from it.    *)
(***************************************************************************)
EXTENDS Integers, Sequences, FiniteSets, TLC

VARIABLES
    now,            \* wall clock in ms (new Date(), Date.now(), moment())
    accessToken,    \* MpesaService.accessToken
    tokenExpiry,    \* MpesaService.tokenExpiry (ms)
    calls,          \* in-flight initiateSTKPush / querySTKPushStatus calls
    tokenRequests,  \* number of GET /oauth/v1/generate requests issued
    upstream,       \* the most recent request handed to axios
    invocations,    \* number of service calls started so far
    inbox,          \* body of a callback POST routed to its handler, if any
    last,           \* the most recently completed operation and its outcome
    log,            \* the records MpesaService and the callback handler
                    \* wrote in the latest step in which they logged
    hits,           \* the requests each rate limiter counted in its window
    proc            \* the process: its servers, timers and exit code

vars == <<now, accessToken, tokenExpiry, calls, tokenRequests, upstream,
          invocations, inbox, last, log, hits, proc>>

(***************************************************************************)
(* Bounds                                                                  *)
(***************************************************************************)
NumCalls == 2
MaxInvocations == 2
MaxItems == 2
MaxLiteral == 3600

(***************************************************************************)
(* JavaScript values                                                       *)
(***************************************************************************)
Undefined == "<undefined>"

Num(n) == [t |-> "num", v |-> n]

Str(s) == [t |-> "str", v |-> s]

NaN == [t |-> "nan", v |-> 0]

\* JavaScript truthiness of a string-or-undefined value, as used by `||`
\* and by `if (x)`.
Truthy(s) == s # Undefined /\ s # ""

\* a || b on string-or-undefined operands
OrElse(a, b) == IF Truthy(a) THEN a ELSE b

\* Number(value): a number is itself; a string is parsed as a decimal
\* literal ("" is 0), and anything that is not a literal is NaN.  Literals
\* are recognised up to MaxLiteral.
NumberOf(val) ==
    IF val.t = "num" THEN val
    ELSE IF val.v = "" THEN Num(0)
    ELSE IF \E n \in 0..MaxLiteral : ToString(n) = val.v
         THEN Num(CHOOSE n \in 0..MaxLiteral : ToString(n) = val.v)
         ELSE NaN

\* String(value): a string is itself; a number is printed in decimal.
StringOf(val) == IF val.t = "str" THEN val.v ELSE ToString(val.v)

(***************************************************************************)
(* Callback path: MpesaService.processSTKCallback                          *)
(***************************************************************************)
Returned(v) == [threw |-> FALSE, value |-> v]

Threw(msg) == [threw |-> TRUE, message |-> msg]

CallbackStatusNoCancel(code) == IF code = 0 THEN "success" ELSE "failed"

\* the chain `if (ResultCode === 0) .. else if (ResultCode === 1032) ..`
\* over the initial value "failed"
CallbackStatus(code) ==
    IF code = 0 THEN "success"
    ELSE IF code = 1032 THEN "cancelled"
    ELSE "failed"

\* the switch with the `break` of its first case missing
ApplyItemFallThrough(acc, item) ==
    CASE item.Name = "Amount" ->
            [acc EXCEPT !.amount = NumberOf(item.Value),
                        !.phoneNumber = StringOf(item.Value)]
      [] item.Name = "PhoneNumber" ->
            [acc EXCEPT !.phoneNumber = StringOf(item.Value)]
      [] item.Name = "MpesaReceiptNumber" ->
            [acc EXCEPT !.mpesaReceiptNumber = StringOf(item.Value)]
      [] item.Name = "TransactionDate" ->
            [acc EXCEPT !.transactionDate = StringOf(item.Value)]
      [] OTHER -> acc

\* body of the loop over CallbackMetadata.Item: `switch (item.Name)`
ApplyItem(acc, item) ==
    CASE item.Name = "Amount" ->
            [acc EXCEPT !.amount = NumberOf(item.Value)]
      [] item.Name = "PhoneNumber" ->
            [acc EXCEPT !.phoneNumber = StringOf(item.Value)]
      [] item.Name = "MpesaReceiptNumber" ->
            [acc EXCEPT !.mpesaReceiptNumber = StringOf(item.Value)]
      [] item.Name = "TransactionDate" ->
            [acc EXCEPT !.transactionDate = StringOf(item.Value)]
      [] OTHER -> acc

RECURSIVE ExtractItems(_, _)
ExtractItems(acc, items) ==
    IF items = <<>> THEN acc
    ELSE ExtractItems(ApplyItem(acc, Head(items)), Tail(items))

\* `callback.CallbackMetadata?.Item` is truthy
HasItems(cb) ==
    /\ "CallbackMetadata" \in DOMAIN cb
    /\ "Item" \in DOMAIN cb.CallbackMetadata

ZeroFields ==
    [amount |-> Num(0), phoneNumber |-> "", mpesaReceiptNumber |-> "",
     transactionDate |-> ""]

\* the try block of processSTKCallback for a payload that has
\* Body.stkCallback
BuildTransactionStatus(cb) ==
    LET status == CallbackStatus(cb.ResultCode)
        f == IF cb.ResultCode = 0 /\ HasItems(cb)
             THEN ExtractItems(ZeroFields, cb.CallbackMetadata.Item)
             ELSE ZeroFields
    IN  [transactionId |-> cb.MerchantRequestID,
         status |-> status,
         amount |-> f.amount,
         phoneNumber |-> f.phoneNumber,
         mpesaReceiptNumber |->
             IF status = "success" THEN f.mpesaReceiptNumber ELSE Undefined,
         transactionDate |->
             IF status = "success" THEN f.transactionDate ELSE Undefined,
         errorMessage |->
             IF status # "success" THEN cb.ResultDesc ELSE Undefined]

\* `callback.CallbackMetadata.Item` without the optional chaining
processSTKCallbackNoChaining(callbackData) ==
    IF "Body" \notin DOMAIN callbackData
    THEN Threw("Callback processing failed: "
               \o "Cannot read properties of undefined (reading 'stkCallback')")
    ELSE IF "stkCallback" \notin DOMAIN callbackData.Body
    THEN Threw("Callback processing failed: "
               \o "Cannot read properties of undefined (reading 'MerchantRequestID')")
    ELSE IF /\ callbackData.Body.stkCallback.ResultCode = 0
            /\ "CallbackMetadata" \notin DOMAIN callbackData.Body.stkCallback
    THEN Threw("Callback processing failed: "
               \o "Cannot read properties of undefined (reading 'Item')")
    ELSE Returned(BuildTransactionStatus(callbackData.Body.stkCallback))

\* Reading a property of undefined raises a TypeError, which the catch
\* block rethrows with the prefix "Callback processing failed: ".
processSTKCallback(callbackData) ==
    IF "Body" \notin DOMAIN callbackData
    THEN Threw("Callback processing failed: "
               \o "Cannot read properties of undefined (reading 'stkCallback')")
    ELSE IF "stkCallback" \notin DOMAIN callbackData.Body
    THEN Threw("Callback processing failed: "
               \o "Cannot read properties of undefined (reading 'MerchantRequestID')")
    ELSE Returned(BuildTransactionStatus(callbackData.Body.stkCallback))

(***************************************************************************)
(* Callback payloads the provider (or anyone) may POST                     *)
(***************************************************************************)
ResultCodes == {0, 1, 1032, 1037}

ItemNames ==
    {"Amount", "PhoneNumber", "MpesaReceiptNumber", "TransactionDate",
     "Balance"}

ItemValues == {Num(100), Num(712345678), Str("100"), Str("QK12AB34CD")}

MetadataItems == [Name : ItemNames, Value : ItemValues]

ItemLists == UNION {[1..n -> MetadataItems] : n \in 0..MaxItems}

ResultDescs == {Undefined, "Request cancelled by user"}

CallbackHeads ==
    [MerchantRequestID : {"29115-34620561-1"},
     CheckoutRequestID : {"ws_CO_191220191020363925"},
     ResultCode : ResultCodes,
     ResultDesc : ResultDescs]

WithMetadata(h, m) ==
    [MerchantRequestID |-> h.MerchantRequestID,
     CheckoutRequestID |-> h.CheckoutRequestID,
     ResultCode |-> h.ResultCode,
     ResultDesc |-> h.ResultDesc,
     CallbackMetadata |-> m]

StkCallbacks ==
    CallbackHeads
    \cup {WithMetadata(h, [Item |-> l]) : h \in CallbackHeads, l \in ItemLists}
    \cup {WithMetadata(h, [Other |-> "x"]) : h \in CallbackHeads}

ValidPayloads == {[Body |-> [stkCallback |-> cb]] : cb \in StkCallbacks}

MalformedPayloads == {[Other |-> "x"], [Body |-> [Other |-> "x"]]}

Payloads == ValidPayloads \cup MalformedPayloads

(***************************************************************************)
(* PaymentController.handleSTKCallback behind asyncHandler                 *)
(***************************************************************************)
Accepted == [ResultCode |-> 0, ResultDesc |-> "Accepted"]

Failed == [ResultCode |-> 1, ResultDesc |-> "Failed"]

\* What the handler does with the outcome r of processSTKCallback:
\* `sent` lists the res.status(..).json(..) calls in order, `forwarded`
\* tells whether the handler's promise rejected, so that asyncHandler's
\* .catch(next) hands the error to the error middleware.
CallbackReplyRethrow(r) ==
    IF ~r.threw
    THEN [sent |-> <<[status |-> 200, body |-> Accepted]>>,
          forwarded |-> FALSE]
    ELSE [sent |-> <<>>, forwarded |-> TRUE]

CallbackReply(r) ==
    IF ~r.threw
    THEN [sent |-> <<[status |-> 200, body |-> Accepted]>>,
          forwarded |-> FALSE]
    ELSE [sent |-> <<[status |-> 200, body |-> Failed]>>,
          forwarded |-> FALSE]

NoCallback == [Pending |-> FALSE]

\* a logger call: the message and the metadata object passed with it
LogRecord(message, meta) == [message |-> message, meta |-> meta]

\* logger.error(message, error)
ErrorLog(message, errorMessage) ==
    LogRecord(message, [message |-> errorMessage])

\* what handleSTKCallback and processSTKCallback log for the body and the
\* outcome r
CallbackLog(body, r) ==
    <<LogRecord("STK callback received", [callbackData |-> [json |-> body]])>>
    \o (IF "Body" \in DOMAIN body /\ "stkCallback" \in DOMAIN body.Body
        THEN <<LogRecord("Processing STK callback",
                         [merchantRequestId |->
                              body.Body.stkCallback.MerchantRequestID,
                          checkoutRequestId |->
                              body.Body.stkCallback.CheckoutRequestID,
                          resultCode |-> body.Body.stkCallback.ResultCode])>>
        ELSE <<>>)
    \o (IF r.threw
        THEN <<ErrorLog("Error processing STK callback", r.message),
               LogRecord("STK callback processing error",
                         [error |-> r.message, callbackData |-> body])>>
        ELSE <<LogRecord("STK callback processed", r.value),
               LogRecord("STK callback processed successfully",
                         [transactionId |-> r.value.transactionId,
                          status |-> r.value.status,
                          amount |-> r.value.amount])>>)

handleSTKCallback ==
    /\ inbox # NoCallback
    /\ LET r == processSTKCallback(inbox)
       IN  /\ last' = [op |-> "callback", input |-> inbox, outcome |-> r,
                       reply |-> CallbackReply(r)]
           /\ log' = CallbackLog(inbox, r)
    /\ inbox' = NoCallback
    /\ UNCHANGED <<now, accessToken, tokenExpiry, calls, tokenRequests,
                   upstream, invocations, hits, proc>>

(***************************************************************************)
(* Configuration (src/unnamed/part_001) and the upstream provider          *)
(***************************************************************************)
ConsumerKey == "consumer-key"

ConsumerSecret == "consumer-secret"

BusinessShortCode == "174379"

Passkey == "passkey"

CallbackBaseUrl == "http://localhost:3000/api/v1/callbacks"

\* Buffer.from(s).toString("base64")
Base64(s) == "base64(" \o s \o ")"

\* moment().format("YYYYMMDDHHmmss"): the clock at second precision
FormatTimestamp(t) == ToString(t \div 1000)

\* 55 * 60 * 1000
TokenLifetimeMs == 55 * 60 * 1000

\* messages of the errors axios rejects with (network failure, timeout,
\* non-2xx status)
TransportErrors ==
    {"timeout of 30000ms exceeded", "Request failed with status code 401"}

Failure(msg) == [ok |-> FALSE, message |-> msg]

Success(data) == [ok |-> TRUE, data |-> data]

Tokens == {"tokA", "tokB"}

\* lifetimes in seconds the provider may declare (AccessTokenResponse
\* .expires_in: string)
ExpiresIn == {"3599", "1800"}

TokenResponses ==
    {Failure(m) : m \in TransportErrors}
    \cup {Success(d) :
            d \in [access_token : Tokens \cup {"", Undefined},
                   expires_in : ExpiresIn]}

PushResponses ==
    {Failure(m) : m \in TransportErrors}
    \cup {Success(d) :
            d \in [MerchantRequestID : {Undefined, "29115-34620561-1"},
                   CheckoutRequestID : {"", "ws_CO_191220191020363925"},
                   ResponseCode : {"0", "1"},
                   ResponseDescription :
                       {Undefined, "", "Invalid Access Token"},
                   CustomerMessage :
                       {"Success. Request accepted for processing"}]}

\* the provider renders its numeric result code as a string in the query
\* response (QuerySTKResponse.ResultCode: string)
QueryResultCodes == {ToString(c) : c \in ResultCodes} \cup {Undefined}

QueryResponses ==
    {Failure(m) : m \in TransportErrors}
    \cup {Success(d) :
            d \in [ResponseCode : {"0"},
                   ResponseDescription :
                       {"The service request has been accepted successsfully"},
                   MerchantRequestID : {"29115-34620561-1", "16813-1590513-1"},
                   CheckoutRequestID : {"ws_CO_191220191020363925"},
                   ResultCode : QueryResultCodes,
                   ResultDesc : ResultDescs]}

PaymentRequests ==
    [amount : {Num(100)},
     phoneNumber : {"254712345678"},
     accountReference : {"ORDER123"},
     transactionDesc : {"Payment"}]

CheckoutRequestIds == {"ws_CO_191220191020363925"}

\* the bodies posted to /initiate
PaymentBodies ==
    {[amount |-> Str("100"),
      phoneNumber |-> <<"0", "7", "1", "2", "3", "4", "5", "6", "7", "8">>,
      accountReference |-> "ORDER123",
      transactionDesc |-> "Payment"],
     [amount |-> Str("0"),
      phoneNumber |-> <<"0", "7", "1", "2", "3", "4", "5", "6", "7", "8">>,
      accountReference |-> "ORDER123",
      transactionDesc |-> "Payment"],
     [amount |-> Str("100"),
      phoneNumber |-> <<"2", "5", "4", "7", "1", "2">>,
      accountReference |-> "ORDER123",
      transactionDesc |-> "Payment"]}

\* paymentRateLimiter's keyGenerator: one window per client address and
\* phone number; the requests modelled come from one address
PaymentKey(body) == body.phoneNumber

PaymentKeys == {PaymentKey(b) : b \in PaymentBodies}

\* an http.Server: the port it was asked for (0: any free port), whether
\* it accepts connections, its open connections, and whether a callback
\* given to close() is still to be called
Server(port) ==
    [port |-> port, listening |-> TRUE, connections |-> 0, closing |-> FALSE]

\* the process once `new App()` has run: no server yet, no signal handler,
\* no timer, not exited (exit code -1)
Started ==
    [servers |-> <<>>, handlers |-> FALSE, timers |-> {}, signals |-> 0,
     exit |-> -1]

\* both rate limiters' windows empty, no request served yet
NoHits ==
    [general |-> 0, payment |-> [k \in PaymentKeys |-> 0], requests |-> 0]

(***************************************************************************)
(* MpesaService                                                            *)
(***************************************************************************)
Calls == 1..NumCalls

Idle == [pc |-> "idle", kind |-> "none", arg |-> "", token |-> ""]

NoRequest == [endpoint |-> "none"]

Init ==
    /\ now = 0
    /\ accessToken = ""
    /\ tokenExpiry = 0
    /\ calls = [c \in Calls |-> Idle]
    /\ tokenRequests = 0
    /\ upstream = NoRequest
    /\ invocations = 0
    /\ inbox = NoCallback
    /\ last = [op |-> "none"]
    /\ log = <<>>
    /\ hits = NoHits
    /\ proc = Started

\* request interceptor: logs method, url and headers of every request
RequestLog(method, req) ==
    LogRecord("M-Pesa API Request",
              [method |-> method, url |-> req.endpoint,
               headers |-> [ContentType |-> "application/json",
                            Accept |-> "application/json",
                            Authorization |-> req.authorization]])

\* response interceptor: logs the answer's data, or the rejection
ResponseLog(r) ==
    IF r.ok
    THEN LogRecord("M-Pesa API Response",
                   [status |-> 200, statusText |-> "OK", data |-> r.data])
    ELSE LogRecord("M-Pesa API Response Error",
                   [status |-> Undefined, statusText |-> Undefined,
                    data |-> Undefined, message |-> r.message])

\* logger.error in the catch block of each public method
CatchLog(kind, errorMessage) ==
    ErrorLog(IF kind = "initiate" THEN "STK Push error"
             ELSE "Query STK Push status error", errorMessage)

\* the token still served at the instant of its recorded expiry
TokenValidInclusive == Truthy(accessToken) /\ tokenExpiry >= now

TokenValidForever == Truthy(accessToken)

\* `this.accessToken && this.tokenExpiry > new Date()`
TokenValid == Truthy(accessToken) /\ tokenExpiry > now

\* the timestamp taken once, when the service was constructed
generatePasswordStale(t) ==
    LET timestamp == FormatTimestamp(0)
    IN  [password |-> Base64(BusinessShortCode \o Passkey \o timestamp),
         timestamp |-> timestamp]

\* generatePassword()
generatePassword(t) ==
    LET timestamp == FormatTimestamp(t)
    IN  [password |-> Base64(BusinessShortCode \o Passkey \o timestamp),
         timestamp |-> timestamp]

ErrorPrefixCopied(kind) == "Payment initiation failed: "

\* the message of the error each public method throws from its catch block
ErrorPrefix(kind) ==
    IF kind = "initiate" THEN "Payment initiation failed: "
    ELSE "Status query failed: "

\* the message of the error getAccessToken throws from its catch block
AuthError(msg) == "Authentication failed: " \o msg

\* new ApiError(message, statusCode)
ApiError(message, statusCode) ==
    [name |-> "ApiError", message |-> message, statusCode |-> statusCode]

\* the error middleware's answer to an error handed to next()
errorHandler(error) ==
    LET known == error.name = "ApiError"
        statusCode ==
            CASE known -> error.statusCode
              [] error.name = "ValidationError" -> 400
              [] error.name \in {"UnauthorizedError", "JsonWebTokenError",
                                 "TokenExpiredError"} -> 401
              [] OTHER -> 500
        message ==
            CASE known -> error.message
              [] error.name = "ValidationError" -> "Validation error"
              [] error.name = "UnauthorizedError" -> "Unauthorized"
              [] error.name = "JsonWebTokenError" -> "Invalid token"
              [] error.name = "TokenExpiredError" -> "Token expired"
              [] OTHER -> "Internal server error"
    IN  [by |-> "errorHandler", status |-> statusCode,
         body |-> [success |-> FALSE, message |-> message]]

\* every service result answered with 200
InitiateAnswerAlwaysOk(outcome) ==
    IF outcome.threw
    THEN errorHandler(ApiError(OrElse(outcome.message,
                                      "Payment initiation failed"), 500))
    ELSE [by |-> "initiatePayment",
          status |-> 200,
          body |-> [success |-> outcome.value.success,
                    data |-> outcome.value,
                    message |-> outcome.value.message]]

\* PaymentController.initiatePayment after the service call: the answer
\* to the outcome of initiateSTKPush
InitiateAnswer(outcome) ==
    IF outcome.threw
    THEN errorHandler(ApiError(OrElse(outcome.message,
                                      "Payment initiation failed"), 500))
    ELSE [by |-> "initiatePayment",
          status |-> IF outcome.value.success THEN 200 ELSE 400,
          body |-> [success |-> outcome.value.success,
                    data |-> outcome.value,
                    message |-> outcome.value.message]]

\* PaymentController.queryPaymentStatus after the service call
StatusAnswer(outcome) ==
    IF outcome.threw
    THEN errorHandler(ApiError(OrElse(outcome.message,
                                      "Failed to query payment status"), 500))
    ELSE [by |-> "queryPaymentStatus",
          status |-> 200,
          body |-> [success |-> TRUE,
                    data |-> outcome.value,
                    message |-> "Payment status retrieved successfully"]]

\* what the controller method awaiting a call of this kind answers
ControllerAnswer(kind, outcome) ==
    IF kind = "initiate" THEN InitiateAnswer(outcome)
    ELSE StatusAnswer(outcome)

\* A call ends: its outcome is recorded (with the await it resumed from and
\* the answer it resumed with) and its slot is free again.
Finish(c, response, outcome) ==
    /\ last' = [op |-> calls[c].kind, input |-> calls[c].arg,
                stage |-> calls[c].pc, response |-> response,
                outcome |-> outcome,
                answer |-> ControllerAnswer(calls[c].kind, outcome)]
    /\ calls' = [calls EXCEPT ![c] = Idle]

\* A public method is entered and runs getAccessToken up to its first
\* await: either the cached token is returned, or the credential exchange
\* is issued.  Call slots are interchangeable, so a new call takes the
\* lowest free one.
Enter(c, kind, arg) ==
    /\ calls[c].pc = "idle"
    /\ \A d \in Calls : d < c => calls[d].pc # "idle"
    /\ invocations < MaxInvocations
    /\ invocations' = invocations + 1
    /\ IF TokenValid
       THEN /\ calls' = [calls EXCEPT ![c] =
                           [pc |-> "token", kind |-> kind, arg |-> arg,
                            token |-> accessToken]]
            /\ UNCHANGED <<tokenRequests, upstream, log>>
       ELSE /\ calls' = [calls EXCEPT ![c] =
                           [pc |-> "awaitToken", kind |-> kind, arg |-> arg,
                            token |-> ""]]
            /\ tokenRequests' = tokenRequests + 1
            /\ upstream' =
                   [endpoint |-> "/oauth/v1/generate?grant_type=client_credentials",
                    authorization |->
                        "Basic " \o Base64(ConsumerKey \o ":" \o ConsumerSecret)]
            /\ log' = <<RequestLog("get", upstream')>>
    /\ UNCHANGED <<now, accessToken, tokenExpiry>>

initiateSTKPush(c) ==
    /\ \E req \in PaymentRequests : Enter(c, "initiate", req)
    /\ UNCHANGED <<inbox, last, hits, proc>>

querySTKPushStatus(c) ==
    /\ \E id \in CheckoutRequestIds : Enter(c, "query", id)
    /\ UNCHANGED <<inbox, last, hits, proc>>

\* the cache dropped when an exchange fails
getAccessTokenClearing(c, responses) ==
    /\ calls[c].pc = "awaitToken"
    /\ \E r \in responses :
          IF r.ok /\ Truthy(r.data.access_token)
          THEN /\ accessToken' = r.data.access_token
               /\ tokenExpiry' = now + TokenLifetimeMs
               /\ calls' = [calls EXCEPT ![c].pc = "token",
                                         ![c].token = r.data.access_token]
               /\ log' = <<ResponseLog(r),
                           LogRecord("Access token obtained successfully",
                                     [expiresIn |-> r.data.expires_in])>>
               /\ UNCHANGED last
          ELSE LET cause == IF r.ok THEN "Failed to obtain access token"
                            ELSE r.message
               IN  /\ Finish(c, r, Threw(ErrorPrefix(calls[c].kind)
                                         \o AuthError(cause)))
                   /\ log' = <<ResponseLog(r),
                               ErrorLog("Failed to get access token", cause),
                               CatchLog(calls[c].kind, AuthError(cause))>>
                   /\ accessToken' = "" /\ UNCHANGED tokenExpiry
    /\ UNCHANGED <<now, tokenRequests, upstream, invocations, inbox, hits, proc>>

\* the token stored without its expiry
getAccessTokenStaleExpiry(c, responses) ==
    /\ calls[c].pc = "awaitToken"
    /\ \E r \in responses :
          IF r.ok /\ Truthy(r.data.access_token)
          THEN /\ accessToken' = r.data.access_token
               /\ UNCHANGED tokenExpiry
               /\ calls' = [calls EXCEPT ![c].pc = "token",
                                         ![c].token = r.data.access_token]
               /\ log' = <<ResponseLog(r),
                           LogRecord("Access token obtained successfully",
                                     [expiresIn |-> r.data.expires_in])>>
               /\ UNCHANGED last
          ELSE LET cause == IF r.ok THEN "Failed to obtain access token"
                            ELSE r.message
               IN  /\ Finish(c, r, Threw(ErrorPrefix(calls[c].kind)
                                         \o AuthError(cause)))
                   /\ log' = <<ResponseLog(r),
                               ErrorLog("Failed to get access token", cause),
                               CatchLog(calls[c].kind, AuthError(cause))>>
                   /\ UNCHANGED <<accessToken, tokenExpiry>>
    /\ UNCHANGED <<now, tokenRequests, upstream, invocations, inbox, hits, proc>>

\* getAccessToken resumes with the token endpoint's answer.
getAccessToken(c, responses) ==
    /\ calls[c].pc = "awaitToken"
    /\ \E r \in responses :
          IF r.ok /\ Truthy(r.data.access_token)
          THEN /\ accessToken' = r.data.access_token
               /\ tokenExpiry' = now + TokenLifetimeMs
               /\ calls' = [calls EXCEPT ![c].pc = "token",
                                         ![c].token = r.data.access_token]
               /\ log' = <<ResponseLog(r),
                           LogRecord("Access token obtained successfully",
                                     [expiresIn |-> r.data.expires_in])>>
               /\ UNCHANGED last
          ELSE LET cause == IF r.ok THEN "Failed to obtain access token"
                            ELSE r.message
               IN  /\ Finish(c, r, Threw(ErrorPrefix(calls[c].kind)
                                         \o AuthError(cause)))
                   /\ log' = <<ResponseLog(r),
                               ErrorLog("Failed to get access token", cause),
                               CatchLog(calls[c].kind, AuthError(cause))>>
                   /\ UNCHANGED <<accessToken, tokenExpiry>>
    /\ UNCHANGED <<now, tokenRequests, upstream, invocations, inbox, hits, proc>>

\* the STKPushRequest built by initiateSTKPush
StkPushData(req, t) ==
    LET sig == generatePassword(t)
    IN  [BusinessShortCode |-> BusinessShortCode,
         Password |-> sig.password,
         Timestamp |-> sig.timestamp,
         TransactionType |-> "CustomerPayBillOnline",
         Amount |-> req.amount,
         PartyA |-> req.phoneNumber,
         PartyB |-> BusinessShortCode,
         PhoneNumber |-> req.phoneNumber,
         CallBackURL |-> CallbackBaseUrl \o "/stk-callback",
         AccountReference |-> req.accountReference,
         TransactionDesc |-> req.transactionDesc]

\* the body built by querySTKPushStatus
QueryData(id, t) ==
    LET sig == generatePassword(t)
    IN  [BusinessShortCode |-> BusinessShortCode,
         Password |-> sig.password,
         Timestamp |-> sig.timestamp,
         CheckoutRequestID |-> id]

\* With the token in hand the method signs and posts its request.
Post(c) ==
    /\ calls[c].pc = "token"
    /\ calls' = [calls EXCEPT ![c].pc = "awaitResponse"]
    /\ upstream' =
          [endpoint |-> IF calls[c].kind = "initiate"
                        THEN "/mpesa/stkpush/v1/processrequest"
                        ELSE "/mpesa/stkpushquery/v1/query",
           authorization |-> "Bearer " \o calls[c].token,
           body |-> IF calls[c].kind = "initiate"
                    THEN StkPushData(calls[c].arg, now)
                    ELSE QueryData(calls[c].arg, now)]
    /\ log' = (IF calls[c].kind = "initiate"
               THEN <<LogRecord("Initiating STK Push",
                                [phoneNumber |-> calls[c].arg.phoneNumber,
                                 amount |-> calls[c].arg.amount,
                                 accountReference |->
                                     calls[c].arg.accountReference])>>
               ELSE <<>>)
              \o <<RequestLog("post", upstream')>>
    /\ UNCHANGED <<now, accessToken, tokenExpiry, tokenRequests, invocations,
                   inbox, last, hits, proc>>

\* the two identifiers exchanged in the success branch
PushResultSwapped(d) ==
    IF d.ResponseCode = "0"
    THEN [success |-> TRUE,
          transactionId |-> d.CheckoutRequestID,
          checkoutRequestId |-> d.MerchantRequestID,
          message |-> "Payment request sent successfully",
          customerMessage |-> d.CustomerMessage]
    ELSE [success |-> FALSE,
          transactionId |-> OrElse(d.MerchantRequestID, ""),
          checkoutRequestId |-> OrElse(d.CheckoutRequestID, ""),
          message |-> OrElse(d.ResponseDescription, "Payment request failed"),
          customerMessage |-> Undefined]

\* the failure branch without its `|| ""` defaults
PushResultNoDefaults(d) ==
    IF d.ResponseCode = "0"
    THEN [success |-> TRUE,
          transactionId |-> d.MerchantRequestID,
          checkoutRequestId |-> d.CheckoutRequestID,
          message |-> "Payment request sent successfully",
          customerMessage |-> d.CustomerMessage]
    ELSE [success |-> FALSE,
          transactionId |-> d.MerchantRequestID,
          checkoutRequestId |-> d.CheckoutRequestID,
          message |-> OrElse(d.ResponseDescription, "Payment request failed"),
          customerMessage |-> Undefined]

\* the PaymentResponse built from the push endpoint's answer
PushResult(d) ==
    IF d.ResponseCode = "0"
    THEN [success |-> TRUE,
          transactionId |-> d.MerchantRequestID,
          checkoutRequestId |-> d.CheckoutRequestID,
          message |-> "Payment request sent successfully",
          customerMessage |-> d.CustomerMessage]
    ELSE [success |-> FALSE,
          transactionId |-> OrElse(d.MerchantRequestID, ""),
          checkoutRequestId |-> OrElse(d.CheckoutRequestID, ""),
          message |-> OrElse(d.ResponseDescription, "Payment request failed"),
          customerMessage |-> Undefined]

\* the chain `if (ResultCode === "0") .. else if (=== "1032") .. else if
\* (=== "1") ..` over the initial value "pending"
QueryStatus(code) ==
    IF code = "0" THEN "success"
    ELSE IF code = "1032" THEN "cancelled"
    ELSE IF code = "1" THEN "failed"
    ELSE "pending"

\* the result identified by the checkout request instead
QueryResultByCheckoutId(d) ==
    LET status == QueryStatus(d.ResultCode)
    IN  [transactionId |-> d.CheckoutRequestID,
         status |-> status,
         amount |-> Num(0),
         phoneNumber |-> "",
         mpesaReceiptNumber |-> Undefined,
         transactionDate |-> Undefined,
         errorMessage |-> IF status # "success" THEN d.ResultDesc ELSE Undefined]

\* the TransactionStatus built from the query endpoint's answer
QueryResult(d) ==
    LET status == QueryStatus(d.ResultCode)
    IN  [transactionId |-> d.MerchantRequestID,
         status |-> status,
         amount |-> Num(0),
         phoneNumber |-> "",
         mpesaReceiptNumber |-> Undefined,
         transactionDate |-> Undefined,
         errorMessage |-> IF status # "success" THEN d.ResultDesc ELSE Undefined]

\* a rejected push request sent once more instead of failing the call
PushResponseRetrying(c, responses) ==
    /\ calls[c].pc = "awaitResponse"
    /\ calls[c].kind = "initiate"
    /\ \E r \in responses :
          /\ IF r.ok
             THEN Finish(c, r, Returned(PushResult(r.data)))
             ELSE /\ calls' = [calls EXCEPT ![c].pc = "token"]
                  /\ UNCHANGED last
          /\ log' = <<ResponseLog(r),
                      IF ~r.ok THEN CatchLog("initiate", r.message)
                      ELSE IF r.data.ResponseCode = "0"
                      THEN LogRecord("STK Push initiated successfully",
                                     [merchantRequestId |->
                                          r.data.MerchantRequestID,
                                      checkoutRequestId |->
                                          r.data.CheckoutRequestID])
                      ELSE LogRecord("STK Push failed",
                                     [responseCode |-> r.data.ResponseCode,
                                      responseDescription |->
                                          r.data.ResponseDescription])>>
    /\ UNCHANGED <<now, accessToken, tokenExpiry, tokenRequests, upstream,
                   invocations, inbox, hits, proc>>

\* initiateSTKPush resumes with the push endpoint's answer.
PushResponse(c, responses) ==
    /\ calls[c].pc = "awaitResponse"
    /\ calls[c].kind = "initiate"
    /\ \E r \in responses :
          /\ Finish(c, r, IF r.ok THEN Returned(PushResult(r.data))
                          ELSE Threw(ErrorPrefix("initiate") \o r.message))
          /\ log' = <<ResponseLog(r),
                      IF ~r.ok THEN CatchLog("initiate", r.message)
                      ELSE IF r.data.ResponseCode = "0"
                      THEN LogRecord("STK Push initiated successfully",
                                     [merchantRequestId |->
                                          r.data.MerchantRequestID,
                                      checkoutRequestId |->
                                          r.data.CheckoutRequestID])
                      ELSE LogRecord("STK Push failed",
                                     [responseCode |-> r.data.ResponseCode,
                                      responseDescription |->
                                          r.data.ResponseDescription])>>
    /\ UNCHANGED <<now, accessToken, tokenExpiry, tokenRequests, upstream,
                   invocations, inbox, hits, proc>>

\* querySTKPushStatus resumes with the query endpoint's answer.
QueryResponse(c, responses) ==
    /\ calls[c].pc = "awaitResponse"
    /\ calls[c].kind = "query"
    /\ \E r \in responses :
          /\ Finish(c, r, IF r.ok THEN Returned(QueryResult(r.data))
                          ELSE Threw(ErrorPrefix("query") \o r.message))
          /\ log' = <<ResponseLog(r)>>
                    \o (IF r.ok THEN <<>>
                        ELSE <<CatchLog("query", r.message)>>)
    /\ UNCHANGED <<now, accessToken, tokenExpiry, tokenRequests, upstream,
                   invocations, inbox, hits, proc>>

\* The clock advances to an instant next to the recorded expiry, where the
\* comparison in TokenValid changes its value.
Tick ==
    /\ \E t \in {tokenExpiry - 1, tokenExpiry, tokenExpiry + 1} :
          /\ t > now
          /\ now' = t
    /\ UNCHANGED <<accessToken, tokenExpiry, calls, tokenRequests, upstream,
                   invocations, inbox, last, log, hits, proc>>

\* the answers used where calls overlap: one transport failure, one
\* accepted and one rejected push, one settled and one open query
CorePushResponses ==
    {r \in PushResponses :
        IF r.ok
        THEN /\ r.data.MerchantRequestID # Undefined
             /\ r.data.CheckoutRequestID # ""
             /\ r.data.ResponseDescription = "Invalid Access Token"
        ELSE r.message = "timeout of 30000ms exceeded"}

CoreTokenResponses ==
    {r \in TokenResponses :
        IF r.ok
        THEN r.data.access_token \in Tokens /\ r.data.expires_in = "3599"
        ELSE r.message = "timeout of 30000ms exceeded"}

CoreQueryResponses ==
    {r \in QueryResponses :
        IF r.ok
        THEN /\ r.data.ResultCode \in {"0", "1037"}
             /\ r.data.ResultDesc # Undefined
             /\ r.data.MerchantRequestID = "29115-34620561-1"
        ELSE r.message = "timeout of 30000ms exceeded"}

\* overlapping calls
Next ==
    \/ \E c \in Calls : initiateSTKPush(c)
    \/ \E c \in Calls : querySTKPushStatus(c)
    \/ \E c \in Calls : getAccessToken(c, CoreTokenResponses)
    \/ \E c \in Calls : Post(c)
    \/ \E c \in Calls : PushResponse(c, CorePushResponses)
    \/ \E c \in Calls : QueryResponse(c, CoreQueryResponses)
    \/ Tick

Spec == Init /\ [][Next]_vars

\* one call at a time, over every answer of the provider
SingleNext ==
    \/ initiateSTKPush(1)
    \/ querySTKPushStatus(1)
    \/ getAccessToken(1, TokenResponses)
    \/ Post(1)
    \/ PushResponse(1, PushResponses)
    \/ QueryResponse(1, QueryResponses)
    \/ Tick

SingleSpec == Init /\ [][SingleNext]_vars

\* the callback endpoint: a POST with any body has been routed to the
\* handler
CallbackInit ==
    /\ now = 0
    /\ accessToken = ""
    /\ tokenExpiry = 0
    /\ calls = [c \in Calls |-> Idle]
    /\ tokenRequests = 0
    /\ upstream = NoRequest
    /\ invocations = 0
    /\ inbox \in Payloads
    /\ last = [op |-> "none"]
    /\ log = <<>>
    /\ hits = NoHits
    /\ proc = Started

CallbackNext == handleSTKCallback

CallbackSpec == CallbackInit /\ [][CallbackNext]_vars

(***************************************************************************)
(* Properties                                                              *)
(***************************************************************************)
CallbackAnswered == last.op = "callback"

\* the stkCallback object of the callback that was just answered
AnsweredCallback == last.input.Body.stkCallback

StructurallyValid(p) == "Body" \in DOMAIN p /\ "stkCallback" \in DOMAIN p.Body

CallbackReturned ==
    /\ CallbackAnswered
    /\ StructurallyValid(last.input)
    /\ ~last.outcome.threw

\* C1: every callback request that reaches handleSTKCallback is answered
\* exactly once, with HTTP 200: body Accepted when processSTKCallback
\* returned, body Failed when it threw; nothing is handed to the error
\* middleware.
C1_CallbackAlwaysAcknowledged ==
    CallbackAnswered =>
        /\ Len(last.reply.sent) = 1
        /\ last.reply.sent[1].status = 200
        /\ last.reply.sent[1].body =
              IF last.outcome.threw
              THEN [ResultCode |-> 1, ResultDesc |-> "Failed"]
              ELSE [ResultCode |-> 0, ResultDesc |-> "Accepted"]
        /\ ~last.reply.forwarded

C1_Witness ==
    /\ CallbackAnswered
    /\ last.outcome.threw
    /\ last.reply.sent = <<[status |-> 200,
                            body |-> [ResultCode |-> 1, ResultDesc |-> "Failed"]]>>

\* C4: on the callback path result code 1032 yields cancelled, every other
\* non-zero result code yields failed, and in both cases errorMessage is the
\* provider's ResultDesc.
C4_NonZeroCodes ==
    (CallbackReturned /\ AnsweredCallback.ResultCode # 0) =>
        /\ last.outcome.value.status =
              IF AnsweredCallback.ResultCode = 1032 THEN "cancelled"
              ELSE "failed"
        /\ last.outcome.value.errorMessage = AnsweredCallback.ResultDesc

C4_Witness ==
    /\ CallbackReturned
    /\ AnsweredCallback.ResultCode = 1032
    /\ last.outcome.value.status = "cancelled"
    /\ last.outcome.value.errorMessage = "Request cancelled by user"

\* the metadata items of a callback; none when CallbackMetadata or its Item
\* is missing
ItemsOf(cb) ==
    IF "CallbackMetadata" \in DOMAIN cb
    THEN IF "Item" \in DOMAIN cb.CallbackMetadata
         THEN cb.CallbackMetadata.Item
         ELSE <<>>
    ELSE <<>>

Named(items, name) == {i \in 1..Len(items) : items[i].Name = name}

\* the value of the last item with the given name
ValueOf(items, name) ==
    items[CHOOSE i \in Named(items, name) :
              \A j \in Named(items, name) : j <= i].Value

\* C5: for result code 0 the status is success and amount, phoneNumber,
\* mpesaReceiptNumber and transactionDate come from the items named Amount,
\* PhoneNumber, MpesaReceiptNumber and TransactionDate; an absent item (or
\* absent metadata) leaves its field at 0 or "".
C5_SuccessFields ==
    (CallbackAnswered /\ StructurallyValid(last.input)
        /\ AnsweredCallback.ResultCode = 0) =>
        LET items == ItemsOf(AnsweredCallback)
            v == last.outcome.value
        IN  /\ ~last.outcome.threw
            /\ v.status = "success"
            /\ v.amount = IF Named(items, "Amount") = {} THEN Num(0)
                          ELSE NumberOf(ValueOf(items, "Amount"))
            /\ v.phoneNumber = IF Named(items, "PhoneNumber") = {} THEN ""
                               ELSE StringOf(ValueOf(items, "PhoneNumber"))
            /\ v.mpesaReceiptNumber =
                  IF Named(items, "MpesaReceiptNumber") = {} THEN ""
                  ELSE StringOf(ValueOf(items, "MpesaReceiptNumber"))
            /\ v.transactionDate =
                  IF Named(items, "TransactionDate") = {} THEN ""
                  ELSE StringOf(ValueOf(items, "TransactionDate"))

C5_Witness ==
    /\ CallbackReturned
    /\ AnsweredCallback.ResultCode = 0
    /\ ItemsOf(AnsweredCallback) = <<[Name |-> "Amount", Value |-> Num(100)]>>
    /\ last.outcome.value.status = "success"
    /\ last.outcome.value.amount = Num(100)
    /\ last.outcome.value.phoneNumber = ""
    /\ last.outcome.value.mpesaReceiptNumber = ""

\* C6: for every payload that has Body.stkCallback, whatever its result code
\* and its list of metadata items, processSTKCallback returns a
\* TransactionStatus and does not throw.
C6_TotalOnValidEnvelopes ==
    (CallbackAnswered /\ StructurallyValid(last.input)) =>
        /\ ~last.outcome.threw
        /\ last.outcome.value.status \in {"success", "failed", "cancelled"}
        /\ last.outcome.value.transactionId = AnsweredCallback.MerchantRequestID
        /\ last.outcome.value.amount.t \in {"num", "nan"}

C6_Witness ==
    /\ CallbackReturned
    /\ AnsweredCallback.ResultCode = 0
    /\ Len(ItemsOf(AnsweredCallback)) = 2
    /\ ItemsOf(AnsweredCallback)[1].Name = "Balance"
    /\ ItemsOf(AnsweredCallback)[2] = ItemsOf(AnsweredCallback)[1]

\* a service call that got an HTTP answer with a body from the endpoint of
\* its own request
Answered(kind) ==
    /\ last.op = kind
    /\ last.stage = "awaitResponse"
    /\ last.response.ok

\* the callback the provider would deliver for result code c
CallbackFor(c) ==
    [Body |-> [stkCallback |->
        [MerchantRequestID |-> "29115-34620561-1",
         CheckoutRequestID |-> "ws_CO_191220191020363925",
         ResultCode |-> c,
         ResultDesc |-> "Request cancelled by user"]]]

\* C2: for every numeric result code c, the status querySTKPushStatus
\* returns for a query answer carrying c equals the status
\* processSTKCallback returns for a callback carrying c.
C2_PathIndependent ==
    Answered("query") =>
        \A c \in ResultCodes :
            last.response.data.ResultCode = ToString(c) =>
                /\ ~last.outcome.threw
                /\ last.outcome.value.status =
                      processSTKCallback(CallbackFor(c)).value.status

\* C3: on the poll path code 0 yields success, code 1032 yields cancelled
\* and every other result code yields failed.
C3_PollMapping ==
    Answered("query") =>
        /\ ~last.outcome.threw
        /\ last.outcome.value.status =
              IF last.response.data.ResultCode = "0" THEN "success"
              ELSE IF last.response.data.ResultCode = "1032" THEN "cancelled"
              ELSE "failed"

\* C7: when the provider acknowledges the push with ResponseCode "0",
\* initiateSTKPush returns success=true, the provider's MerchantRequestID as
\* transactionId, its CheckoutRequestID as checkoutRequestId, the message
\* 'Payment request sent successfully' and the provider's CustomerMessage.
C7_PushAccepted ==
    (Answered("initiate") /\ last.response.data.ResponseCode = "0") =>
        /\ ~last.outcome.threw
        /\ last.outcome.value.success = TRUE
        /\ last.outcome.value.transactionId =
              last.response.data.MerchantRequestID
        /\ last.outcome.value.checkoutRequestId =
              last.response.data.CheckoutRequestID
        /\ last.outcome.value.message = "Payment request sent successfully"
        /\ last.outcome.value.customerMessage =
              last.response.data.CustomerMessage

C7_Witness ==
    /\ Answered("initiate")
    /\ last.response.data.ResponseCode = "0"
    /\ last.outcome.value.success
    /\ last.outcome.value.transactionId = "29115-34620561-1"
    /\ last.outcome.value.checkoutRequestId = "ws_CO_191220191020363925"

\* the identifier returned for a provider-supplied one: itself, or "" when
\* the provider supplied none
Supplied(id) == IF id = Undefined THEN "" ELSE id

\* C8 as claimed: whenever the push call completes with a ResponseCode other
\* than "0", initiateSTKPush returns success=false, the provider's
\* ResponseDescription as message (read for the answers that carry one),
\* and the identifiers the provider supplied (empty strings when it supplied
\* none).
C8_AsClaimed ==
    (Answered("initiate") /\ last.response.data.ResponseCode # "0") =>
        /\ ~last.outcome.threw
        /\ last.outcome.value.success = FALSE
        /\ last.response.data.ResponseDescription # Undefined =>
              last.outcome.value.message =
                  last.response.data.ResponseDescription
        /\ last.outcome.value.transactionId =
              Supplied(last.response.data.MerchantRequestID)
        /\ last.outcome.value.checkoutRequestId =
              Supplied(last.response.data.CheckoutRequestID)

\* C8 amended: whenever the push call completes with a ResponseCode other
\* than "0", initiateSTKPush returns (does not throw) success=false, the
\* identifiers the provider supplied (empty strings when it supplied none)
\* and, as message, the provider's ResponseDescription when that is a
\* non-empty string and 'Payment request failed' otherwise.
C8_BusinessFailureIsResult ==
    (Answered("initiate") /\ last.response.data.ResponseCode # "0") =>
        /\ ~last.outcome.threw
        /\ last.outcome.value.success = FALSE
        /\ last.outcome.value.message =
              IF last.response.data.ResponseDescription \in {Undefined, ""}
              THEN "Payment request failed"
              ELSE last.response.data.ResponseDescription
        /\ last.outcome.value.transactionId =
              Supplied(last.response.data.MerchantRequestID)
        /\ last.outcome.value.checkoutRequestId =
              Supplied(last.response.data.CheckoutRequestID)

C8_Witness ==
    /\ Answered("initiate")
    /\ last.response.data.ResponseCode = "1"
    /\ last.response.data.ResponseDescription = "Invalid Access Token"
    /\ last.response.data.MerchantRequestID = Undefined
    /\ ~last.outcome.threw
    /\ last.outcome.value.message = "Invalid Access Token"
    /\ last.outcome.value.transactionId = ""

\* the call that ended last ended because an upstream request failed: the
\* token exchange (transport failure, or an answer without access_token) or
\* the call's own request
UpstreamFailed ==
    /\ last.op \in {"initiate", "query"}
    /\ \/ ~last.response.ok
       \/ /\ last.stage = "awaitToken"
          /\ last.response.data.access_token \in {Undefined, ""}

\* the message of the failure the call's catch block caught
CauseMessage ==
    IF last.stage = "awaitToken"
    THEN "Authentication failed: " \o
         (IF last.response.ok THEN "Failed to obtain access token"
          ELSE last.response.message)
    ELSE last.response.message

\* C9: if the token exchange or the push call fails, initiateSTKPush throws
\* a payment-initiation error wrapping the cause; if the token exchange or
\* the query call fails, querySTKPushStatus throws a status-query error
\* wrapping the cause; neither returns a result.
C9_TransportFailureThrows ==
    UpstreamFailed =>
        /\ last.outcome.threw
        /\ "value" \notin DOMAIN last.outcome
        /\ last.outcome.message =
              (IF last.op = "initiate" THEN "Payment initiation failed: "
               ELSE "Status query failed: ") \o CauseMessage

C9_Witness ==
    /\ UpstreamFailed
    /\ last.op = "query"
    /\ last.stage = "awaitToken"
    /\ last.outcome.message =
          "Status query failed: Authentication failed: timeout of 30000ms exceeded"

\* call c is entered in this step
Entered(c) == calls[c].pc = "idle" /\ calls'[c].pc # "idle"

\* C10: a call entered while a token is cached and its recorded expiry is
\* later than the current time gets that cached token, no request goes to
\* the token endpoint and the cached pair stays as it is; a call entered
\* after the recorded expiry issues a credential exchange.
C10_TokenCacheHit ==
    [][\A c \in Calls :
          Entered(c) =>
            /\ (accessToken # "" /\ tokenExpiry > now) =>
                  /\ calls'[c].pc = "token"
                  /\ calls'[c].token = accessToken
                  /\ tokenRequests' = tokenRequests
                  /\ accessToken' = accessToken
                  /\ tokenExpiry' = tokenExpiry
            /\ now > tokenExpiry =>
                  /\ calls'[c].pc = "awaitToken"
                  /\ tokenRequests' = tokenRequests + 1
                  /\ upstream'.endpoint =
                        "/oauth/v1/generate?grant_type=client_credentials"]_vars

C10_Witness ==
    /\ accessToken # ""
    /\ tokenExpiry > now
    /\ now > 0
    /\ tokenRequests = 1
    /\ invocations = 2
    /\ \E c \in Calls : calls[c].pc = "token" /\ calls[c].token = accessToken

(***************************************************************************)
(* Token cache under overlapping calls, failures and declared lifetimes    *)
(***************************************************************************)

\* the calls suspended on a credential exchange they issued themselves
Exchanging == {c \in Calls : calls[c].pc = "awaitToken"}

\* C11: when calls overlap while the cached token is absent or expired, at
\* most one credential exchange is in flight for that expiry, not one per
\* caller.
C11_SingleExchange == Cardinality(Exchanging) <= 1

\* a step in which call c's credential exchange succeeded
Exchanged(c) == calls[c].pc = "awaitToken" /\ calls'[c].pc = "token"

\* a step in which call c's credential exchange failed
ExchangeFailed(c) == calls[c].pc = "awaitToken" /\ calls'[c].pc = "idle"

\* the lifetime in milliseconds declared by the answer logged in this step
DeclaredLifetimeMs ==
    NumberOf(Str(log'[Len(log')].meta.expiresIn)).v * 1000

\* C12: after every successful credential exchange the recorded expiry is
\* strictly earlier than the end of the lifetime the provider declared in
\* expires_in, for every lifetime the provider may declare.
C12_ExpiryBelowDeclared ==
    [][\A c \in Calls :
          Exchanged(c) => tokenExpiry' < now + DeclaredLifetimeMs]_vars

\* C13: an exchange that fails or yields no access_token makes the call
\* fail with an authentication error and leaves the cached pair as it was;
\* only an answer carrying a token lets the call proceed; and whatever
\* failed before, a call entered without a valid cached token issues a new
\* exchange.
C13_FailedExchange ==
    [][\A c \in Calls :
          /\ ExchangeFailed(c) =>
                /\ accessToken' = accessToken
                /\ tokenExpiry' = tokenExpiry
                /\ last'.stage = "awaitToken"
                /\ last'.outcome.threw
                /\ \/ ~last'.response.ok
                   \/ last'.response.data.access_token \in {"", Undefined}
                /\ last'.outcome.message =
                      (IF calls[c].kind = "initiate"
                       THEN "Payment initiation failed: "
                       ELSE "Status query failed: ")
                      \o "Authentication failed: "
                      \o (IF last'.response.ok
                          THEN "Failed to obtain access token"
                          ELSE last'.response.message)
          /\ Exchanged(c) => calls'[c].token \in Tokens
          /\ (Entered(c) /\ ~(accessToken # "" /\ tokenExpiry > now)) =>
                /\ calls'[c].pc = "awaitToken"
                /\ tokenRequests' = tokenRequests + 1]_vars

\* an exchange failed while a token was cached, the cache kept that token,
\* and the next call's fresh exchange succeeded
C13_Witness ==
    /\ last.op \in {"initiate", "query"}
    /\ last.stage = "awaitToken"
    /\ last.outcome.threw
    /\ tokenRequests = 2
    /\ accessToken \in Tokens
    /\ \E c \in Calls : calls[c].pc = "token" /\ calls[c].token = accessToken

\* C14: under every interleaving, failures included, the cached token is
\* empty or a value the provider returned, and the cached pair changes only
\* in the step of a successful exchange, which stores that exchange's token
\* together with the expiry computed in that same step.
C14_TokenExpiryPaired ==
    [][/\ accessToken' \in Tokens \cup {""}
       /\ (accessToken' # accessToken \/ tokenExpiry' # tokenExpiry) =>
             \E c \in Calls :
                /\ Exchanged(c)
                /\ accessToken' = calls'[c].token
                /\ tokenExpiry' = now + 55 * 60 * 1000
       /\ \A c \in Calls :
             Exchanged(c) => /\ accessToken' = calls'[c].token
                             /\ tokenExpiry' = now + 55 * 60 * 1000]_vars

\* two exchanges overlapped: one stored its token, the other failed
C14_Witness ==
    /\ last.op \in {"initiate", "query"}
    /\ last.stage = "awaitToken"
    /\ last.outcome.threw
    /\ tokenRequests = 2
    /\ invocations = 2
    /\ accessToken \in Tokens
    /\ tokenExpiry = now + TokenLifetimeMs
    /\ \A c \in Calls : calls[c].pc # "token"

(***************************************************************************)
(* Secrets in log records                                                  *)
(***************************************************************************)

\* the Authorization header values that carry a secret in clear form
SecretHeaders ==
    {"Basic " \o Base64(ConsumerKey \o ":" \o ConsumerSecret)}
    \cup {"Bearer " \o t : t \in Tokens}

\* C19: no log record written during a token exchange, a push call or a
\* status query carries the bearer access token or the Basic credential:
\* neither in the logged request headers nor in the logged response data.
C19_NoSecretLogged ==
    \A i \in 1..Len(log) :
        /\ log[i].message = "M-Pesa API Request" =>
              log[i].meta.headers.Authorization \notin SecretHeaders
        /\ (/\ log[i].message = "M-Pesa API Response"
            /\ "access_token" \in DOMAIN log[i].meta.data) =>
              log[i].meta.data.access_token \notin Tokens

(***************************************************************************)
(* Validation utilities: validatePhoneNumber, formatPhoneNumber,           *)
(* validateAmount.  A phone number is a sequence of one-character strings. *)
(***************************************************************************)

Digits == {"0", "1", "2", "3", "4", "5", "6", "7", "8", "9"}

\* the characters matched by [\s\-\+]
Stripped == {" ", "-", "+"}

\* phoneNumber.replace(/[\s\-\+]/g, '')
Clean(phone) == SelectSeq(phone, LAMBDA ch : ch \notin Stripped)

\* s.startsWith(prefix)
StartsWith(s, prefix) ==
    Len(s) >= Len(prefix) /\ SubSeq(s, 1, Len(prefix)) = prefix

\* s.substring(from), from counted from zero
Substring(s, from) == SubSeq(s, from + 1, Len(s))

\* /^(254|0)[17][0-9]{8}$/.test(s)
KenyanPhoneRegex(s) ==
    \E head \in {<<"2", "5", "4">>, <<"0">>} :
        /\ StartsWith(s, head)
        /\ LET rest == Substring(s, Len(head))
           IN  /\ Len(rest) = 9
               /\ rest[1] \in {"1", "7"}
               /\ \A i \in 2..9 : rest[i] \in Digits

validatePhoneNumber(phone) == KenyanPhoneRegex(Clean(phone))

\* the leading zero kept in front of the country code
formatPhoneNumberKeepZero(phone) ==
    LET stripped == Clean(phone)
        cleaned == IF \/ StartsWith(stripped, <<"0", "7">>)
                      \/ StartsWith(stripped, <<"0", "1">>)
                   THEN <<"2", "5", "4">> \o Substring(stripped, 0)
                   ELSE stripped
    IN  IF ~StartsWith(cleaned, <<"2", "5", "4">>)
        THEN Threw("Invalid phone number format")
        ELSE Returned(cleaned)

\* local numbers turned into the form with a leading plus sign
formatPhoneNumberE164(phone) ==
    LET stripped == Clean(phone)
        cleaned == IF \/ StartsWith(stripped, <<"0", "7">>)
                      \/ StartsWith(stripped, <<"0", "1">>)
                   THEN <<"+", "2", "5", "4">> \o Substring(stripped, 1)
                   ELSE stripped
    IN  IF /\ ~StartsWith(cleaned, <<"2", "5", "4">>)
           /\ ~StartsWith(cleaned, <<"+", "2", "5", "4">>)
        THEN Threw("Invalid phone number format")
        ELSE Returned(cleaned)

formatPhoneNumber(phone) ==
    LET stripped == Clean(phone)
        cleaned == IF \/ StartsWith(stripped, <<"0", "7">>)
                      \/ StartsWith(stripped, <<"0", "1">>)
                   THEN <<"2", "5", "4">> \o Substring(stripped, 1)
                   ELSE stripped
    IN  IF ~StartsWith(cleaned, <<"2", "5", "4">>)
        THEN Threw("Invalid phone number format")
        ELSE Returned(cleaned)

\* A JS number that need not be an integer: v + f/100 with 0 < f < 100
\* (v is the floor), and the two infinities.
Dec(n, f) == [t |-> "dec", v |-> n, f |-> f]

Infinity == [t |-> "inf", v |-> 1]

NegInfinity == [t |-> "inf", v |-> -1]

\* x >= n for an integer n; false for NaN
GreaterEq(x, n) ==
    CASE x.t = "num" -> x.v >= n
      [] x.t = "dec" -> x.v >= n
      [] x.t = "inf" -> x.v > 0
      [] OTHER -> FALSE

\* x <= n for an integer n; false for NaN
LessEq(x, n) ==
    CASE x.t = "num" -> x.v <= n
      [] x.t = "dec" -> x.v < n
      [] x.t = "inf" -> x.v < 0
      [] OTHER -> FALSE

\* x > n for an integer n; false for NaN
Greater(x, n) ==
    CASE x.t = "num" -> x.v > n
      [] x.t = "dec" -> x.v >= n
      [] x.t = "inf" -> x.v > 0
      [] OTHER -> FALSE

\* Number.isFinite(x)
IsFinite(x) == x.t \in {"num", "dec"}

\* the lower bound excluded
validateAmountStrict(amount) ==
    Greater(amount, 1) /\ LessEq(amount, 70000) /\ IsFinite(amount)

validateAmount(amount) ==
    GreaterEq(amount, 1) /\ LessEq(amount, 70000) /\ IsFinite(amount)

\* the phone numbers tried: a head, the digit after it, and a tail
PhoneHeads ==
    {<<"0">>, <<"2", "5", "4">>, <<"+", "2", "5", "4">>,
     <<"2", "5", "4", " ">>, <<>>, <<"2", "5", "5">>, <<"0", "0">>}

PhoneSeconds == {<<"7">>, <<"1">>, <<"8">>, <<"a">>}

PhoneTails ==
    {<<"1", "2", "3", "4", "5", "6", "7", "8">>,
     <<"0", "1", "2", "3", "4", "5", "6", "7">>,
     <<"1", "2", "-", "3", "4", "5", " ", "6", "7", "8">>,
     <<"1", "2", "3", "4", "5", "6", "7">>,
     <<"1", "2", "3", "4", "5", "6", "7", "8", "9">>,
     <<"1", "2", "3", "4", "x", "6", "7", "8">>,
     <<"1", "2">>,
     <<>>}

PhoneNumbers ==
    {h \o m \o t : h \in PhoneHeads, m \in PhoneSeconds, t \in PhoneTails}
    \cup {<<"1", "2", "3", "4", "5", "6", "7", "8", "9">>, <<>>}

\* the amounts tried: around both bounds, fractions, and the non-finite
Amounts ==
    {Num(n) : n \in {-10, -1, 0, 1, 2, 100, 69999, 70000, 70001}}
    \cup {Dec(0, 99), Dec(1, 1), Dec(100, 50), Dec(69999, 99), Dec(70000, 1),
          Dec(-1, 50)}
    \cup {Infinity, NegInfinity, NaN}

UtilityCalls ==
    [fn : {"formatPhoneNumber", "validatePhoneNumber"}, arg : PhoneNumbers]
    \cup [fn : {"validateAmount"}, arg : Amounts]

UtilInit ==
    /\ now = 0
    /\ accessToken = ""
    /\ tokenExpiry = 0
    /\ calls = [c \in Calls |-> Idle]
    /\ tokenRequests = 0
    /\ upstream = NoRequest
    /\ invocations = 0
    /\ inbox \in UtilityCalls
    /\ last = [op |-> "none"]
    /\ log = <<>>
    /\ hits = NoHits
    /\ proc = Started

\* one call of a validation utility with the pending argument
Evaluate(fn, outcome) ==
    /\ inbox # NoCallback
    /\ inbox.fn = fn
    /\ last' = [op |-> fn, input |-> inbox.arg, outcome |-> outcome]
    /\ inbox' = NoCallback
    /\ UNCHANGED <<now, accessToken, tokenExpiry, calls, tokenRequests,
                   upstream, invocations, log, hits, proc>>

FormatPhone == Evaluate("formatPhoneNumber", formatPhoneNumber(inbox.arg))

ValidatePhone ==
    Evaluate("validatePhoneNumber", Returned(validatePhoneNumber(inbox.arg)))

ValidateAmount ==
    Evaluate("validateAmount", Returned(validateAmount(inbox.arg)))

UtilNext == FormatPhone \/ ValidatePhone \/ ValidateAmount

UtilSpec == UtilInit /\ [][UtilNext]_vars

\* 0, then 7 or 1, then 8 digits
IsLocal(p) ==
    /\ Len(p) = 10
    /\ p[1] = "0"
    /\ p[2] \in {"7", "1"}
    /\ \A i \in 3..10 : p[i] \in Digits

\* 254, then 7 or 1, then 8 digits
IsInternational(p) ==
    /\ Len(p) = 12
    /\ SubSeq(p, 1, 3) = <<"2", "5", "4">>
    /\ p[4] \in {"7", "1"}
    /\ \A i \in 5..12 : p[i] \in Digits

Formatted == last.op = "formatPhoneNumber"

\* C15: for a valid local number formatPhoneNumber returns 254 followed by
\* the same 9 trailing digits; for an already-international number it
\* returns the input unchanged.
C15_FormatValidNumbers ==
    Formatted =>
        /\ IsLocal(last.input) =>
              last.outcome =
                  Returned(<<"2", "5", "4">> \o SubSeq(last.input, 2, 10))
        /\ IsInternational(last.input) =>
              last.outcome = Returned(last.input)

C15_Witness ==
    /\ Formatted
    /\ last.input = <<"0", "7", "1", "2", "3", "4", "5", "6", "7", "8">>
    /\ ~last.outcome.threw
    /\ last.outcome.value =
          <<"2", "5", "4", "7", "1", "2", "3", "4", "5", "6", "7", "8">>

\* the input without whitespace, dashes and plus signs
StrippedInput == SelectSeq(last.input, LAMBDA ch : ch \notin {" ", "-", "+"})

\* C16: formatPhoneNumber fails with a format error for every input that,
\* once stripped, is neither a local nor an international number; every
\* value it returns is 254, then 7 or 1, then 8 digits.
C16_RejectsNonMatching ==
    Formatted =>
        /\ (~IsLocal(StrippedInput) /\ ~IsInternational(StrippedInput)) =>
              /\ last.outcome.threw
              /\ last.outcome.message = "Invalid phone number format"
        /\ ~last.outcome.threw => IsInternational(last.outcome.value)

\* an amount in hundredths, for the finite ones
Hundredths(x) == IF x.t = "num" THEN 100 * x.v ELSE 100 * x.v + x.f

\* C17: validateAmount(x) is true exactly when x is finite and
\* 1 <= x <= 70000, both bounds included.
C17_AmountRange ==
    last.op = "validateAmount" =>
        (last.outcome.value <=>
            /\ last.input.t \in {"num", "dec"}
            /\ 100 <= Hundredths(last.input)
            /\ Hundredths(last.input) <= 7000000)

C17_Witness ==
    /\ last.op = "validateAmount"
    /\ last.input = Num(1)
    /\ last.outcome.value

(***************************************************************************)
(* HTTP layer: the express application, its routes and their middleware    *)
(***************************************************************************)

\* config.apiKey (default)
ApiKey == "default-api-key-change-in-production"

\* where the application listens: config.port (default 3000) on this host
Origin == "http://localhost:3000"

\* app.use("/api/v1/payments", paymentRoutes)
MountPath == "/api/v1/payments"

\* config.rateLimit.maxRequests (default) per window
RateLimitMaxRequests == 100

\* paymentRateLimiter: max requests per minute
PaymentRateLimitMax == 5

\* requests served in one behaviour
MaxRequests == 2

\* connections open at once on one server, and signals delivered
MaxConnections == 2
MaxSignals == 2

StatusPaths == {MountPath \o "/status/" \o id : id \in CheckoutRequestIds}

\* the paths requests are sent to
Paths ==
    {MountPath \o "/initiate", MountPath \o "/callback/stk",
     MountPath \o "/health", "/", "/api", "/api/v1/callbacks/stk-callback"}
    \cup StatusPaths

\* the path a request to url arrives with, if url is on this application
PathOf(url) ==
    IF \E p \in Paths : Origin \o p = url
    THEN CHOOSE p \in Paths : Origin \o p = url
    ELSE Undefined

\* the route express matches for a request, in registration order
RouteOf(req) ==
    CASE req.method = "POST" /\ req.url = MountPath \o "/initiate" ->
            "initiate"
      [] req.method = "GET" /\ req.url \in StatusPaths -> "status"
      [] req.method = "POST" /\ req.url = MountPath \o "/callback/stk" ->
            "callback"
      [] req.method = "GET" /\ req.url = MountPath \o "/health" -> "health"
      [] req.method = "GET" /\ req.url = "/" -> "root"
      [] req.method = "GET" /\ req.url = "/api" -> "api"
      [] OTHER -> "none"

\* req.params.checkoutRequestId of a request matched by the status route
CheckoutRequestIdOf(req) ==
    CHOOSE id \in CheckoutRequestIds :
        req.url = MountPath \o "/status/" \o id

\* a middleware's verdict: it answered, or it called next()
Reply(middleware, status, message) ==
    [by |-> middleware, status |-> status,
     body |-> [success |-> FALSE, message |-> message]]

Passed == [by |-> "next", status |-> 0]

\* express-rate-limit: the request is counted, and refused once the count
\* exceeds max
rateLimiter(count) ==
    IF count + 1 > RateLimitMaxRequests
    THEN Reply("rateLimiter", 429,
               "Too many requests, please try again later")
    ELSE Passed

paymentRateLimiter(count) ==
    IF count + 1 > PaymentRateLimitMax
    THEN Reply("paymentRateLimiter", 429,
               "Too many payment requests, please wait before trying again")
    ELSE Passed

\* only a key that is present and wrong is refused
authenticateApiKeyIfPresent(req) ==
    IF ~Truthy(req.apiKey) THEN Passed
    ELSE IF req.apiKey # ApiKey
    THEN Reply("authenticateApiKey", 401, "Invalid API key")
    ELSE Passed

authenticateApiKey(req) ==
    IF ~Truthy(req.apiKey)
    THEN Reply("authenticateApiKey", 401, "API key is required")
    ELSE IF req.apiKey # ApiKey
    THEN Reply("authenticateApiKey", 401, "Invalid API key")
    ELSE Passed

\* the rules without the one on the amount
paymentValidationRulesNoAmount(body) ==
    {f \in {"amount", "phoneNumber", "accountReference", "transactionDesc"} :
        CASE f = "amount" -> FALSE
          [] f = "phoneNumber" -> ~KenyanPhoneRegex(body.phoneNumber)
          [] f = "accountReference" ->
                ~(Len(body.accountReference) \in 1..12)
          [] OTHER -> ~(Len(body.transactionDesc) \in 1..13)}

\* the fields paymentValidationRules reject (the references and
\* descriptions tried are alphanumeric)
paymentValidationRules(body) ==
    {f \in {"amount", "phoneNumber", "accountReference", "transactionDesc"} :
        CASE f = "amount" ->
                LET n == NumberOf(body.amount)
                IN  ~(n.t = "num" /\ n.v >= 1 /\ n.v <= 70000)
          [] f = "phoneNumber" -> ~KenyanPhoneRegex(body.phoneNumber)
          [] f = "accountReference" ->
                ~(Len(body.accountReference) \in 1..12)
          [] OTHER -> ~(Len(body.transactionDesc) \in 1..13)}

validateRequest(errors) ==
    IF errors # {}
    THEN Reply("validateRequest", 400, "Validation failed")
    ELSE Passed

\* the verdict of a chain of middleware: the first that answers
FirstReply(verdicts) ==
    IF \E i \in 1..Len(verdicts) : verdicts[i] # Passed
    THEN verdicts[CHOOSE i \in 1..Len(verdicts) :
                     /\ verdicts[i] # Passed
                     /\ \A j \in 1..(i - 1) : verdicts[j] = Passed]
    ELSE Passed

\* the middleware in front of POST /initiate
InitiateChain(req) ==
    FirstReply(<<rateLimiter(hits.general),
                 paymentRateLimiter(hits.payment[PaymentKey(req.body)]),
                 authenticateApiKey(req),
                 validateRequest(paymentValidationRules(req.body))>>)

\* the middleware in front of GET /status/:checkoutRequestId
StatusChain(req) ==
    FirstReply(<<rateLimiter(hits.general),
                 authenticateApiKey(req),
                 validateRequest({})>>)

\* what the limiters have counted once the request went down its chain
Counted(req) ==
    [general |-> IF RouteOf(req) \in {"initiate", "status"}
                 THEN hits.general + 1 ELSE hits.general,
     payment |-> IF /\ RouteOf(req) = "initiate"
                    /\ rateLimiter(hits.general) = Passed
                 THEN [hits.payment EXCEPT ![PaymentKey(req.body)] = @ + 1]
                 ELSE hits.payment,
     requests |-> hits.requests + 1]

\* the request is answered in this step
Respond(req, reply) ==
    /\ last' = [op |-> "http", request |-> req, handler |-> reply.by,
                status |-> reply.status, body |-> reply.body]
    /\ UNCHANGED <<now, accessToken, tokenExpiry, calls, tokenRequests,
                   upstream, invocations, inbox, log>>

\* the request reaches a controller method, which runs up to the first
\* await of the service call it makes; its answer follows that call
Invoke(req, handler, kind, arg) ==
    /\ \E c \in Calls : Enter(c, kind, arg)
    /\ last' = [op |-> "http", request |-> req, handler |-> handler,
                status |-> 0, body |-> Undefined]
    /\ UNCHANGED inbox

\* PaymentController.initiatePayment up to the service call
initiatePayment(req) ==
    LET formatted == formatPhoneNumber(req.body.phoneNumber)
    IN  IF formatted.threw
        THEN Respond(req, Reply("errorHandler", 500, formatted.message))
        ELSE Invoke(req, "initiatePayment", "initiate",
                    [amount |-> NumberOf(req.body.amount),
                     phoneNumber |-> formatted.value,
                     accountReference |-> req.body.accountReference,
                     transactionDesc |-> req.body.transactionDesc])

\* PaymentController.queryPaymentStatus up to the service call
queryPaymentStatus(req) ==
    Invoke(req, "queryPaymentStatus", "query", CheckoutRequestIdOf(req))

\* the cached token dropped whenever a callback is processed
StkCallbackRouteResetting(req) ==
    LET r == processSTKCallback(req.body)
        sent == CallbackReply(r).sent[1]
    IN  /\ last' = [op |-> "http", request |-> req,
                    handler |-> "handleSTKCallback",
                    status |-> sent.status, body |-> sent.body,
                    outcome |-> r]
        /\ log' = CallbackLog(req.body, r)
        /\ accessToken' = ""
        /\ UNCHANGED <<now, tokenExpiry, calls, tokenRequests, upstream,
                       invocations, inbox>>

\* PaymentController.handleSTKCallback behind POST /callback/stk
StkCallbackRoute(req) ==
    LET r == processSTKCallback(req.body)
        sent == CallbackReply(r).sent[1]
    IN  /\ last' = [op |-> "http", request |-> req,
                    handler |-> "handleSTKCallback",
                    status |-> sent.status, body |-> sent.body,
                    outcome |-> r]
        /\ log' = CallbackLog(req.body, r)
        /\ UNCHANGED <<now, accessToken, tokenExpiry, calls, tokenRequests,
                       upstream, invocations, inbox>>

\* One request goes through the application: its route's middleware, then
\* its controller method, or the 404 handler when no route matches.
Handle(req) ==
    /\ hits.requests < MaxRequests
    /\ hits' = Counted(req)
    /\ UNCHANGED proc
    /\ CASE RouteOf(req) = "initiate" ->
               IF InitiateChain(req) # Passed
               THEN Respond(req, InitiateChain(req))
               ELSE initiatePayment(req)
         [] RouteOf(req) = "status" ->
               IF StatusChain(req) # Passed
               THEN Respond(req, StatusChain(req))
               ELSE queryPaymentStatus(req)
         [] RouteOf(req) = "callback" -> StkCallbackRoute(req)
         [] RouteOf(req) = "health" ->
               Respond(req, [by |-> "healthCheck", status |-> 200,
                             body |-> [success |-> TRUE,
                                       message |->
                                           "Payment gateway is healthy"]])
         [] RouteOf(req) \in {"root", "api"} ->
               Respond(req, [by |-> RouteOf(req), status |-> 200,
                             body |-> [success |-> TRUE,
                                       message |->
                                           "M-Pesa Payment Gateway API"]])
         [] OTHER ->
               Respond(req, Reply("notFoundHandler", 404, "Route not found"))

\* the x-api-key headers tried
ApiKeys == {Undefined, ApiKey, "another-key"}

\* the bodies posted as callbacks
CallbackBodies ==
    {[Other |-> "x"],
     [Body |-> [stkCallback |->
                   [MerchantRequestID |-> "29115-34620561-1",
                    CheckoutRequestID |-> "ws_CO_191220191020363925",
                    ResultCode |-> 1032,
                    ResultDesc |-> "Request cancelled by user"]]]}

\* the requests clients send
ClientRequests ==
    [from : {"client"}, method : {"POST"}, url : {MountPath \o "/initiate"},
     apiKey : ApiKeys, body : PaymentBodies]
    \cup [from : {"client"}, method : {"GET"},
          url : StatusPaths \cup {MountPath \o "/health"},
          apiKey : ApiKeys, body : {Undefined}]
    \cup [from : {"client"}, method : {"POST"},
          url : {MountPath \o "/callback/stk"},
          apiKey : {Undefined}, body : CallbackBodies]

\* a client's request arrives
ClientRequest == \E req \in ClientRequests : Handle(req)

\* The provider posts the outcome of a push request to the CallBackURL that
\* request carried.
ProviderCallback ==
    /\ "body" \in DOMAIN upstream
    /\ "CallBackURL" \in DOMAIN upstream.body
    /\ PathOf(upstream.body.CallBackURL) # Undefined
    /\ \E payload \in CallbackBodies :
          Handle([from |-> "provider", method |-> "POST",
                  url |-> PathOf(upstream.body.CallBackURL),
                  apiKey |-> Undefined, body |-> payload])

\* the windows the limiters may be in when the first request arrives
HttpInit ==
    /\ now = 0
    /\ accessToken = ""
    /\ tokenExpiry = 0
    /\ calls = [c \in Calls |-> Idle]
    /\ tokenRequests = 0
    /\ upstream = NoRequest
    /\ invocations = 0
    /\ inbox = NoCallback
    /\ last = [op |-> "none"]
    /\ log = <<>>
    /\ hits \in [general : {0, RateLimitMaxRequests - 1},
                  payment : [PaymentKeys -> {0, PaymentRateLimitMax - 1}],
                  requests : {0}]
    /\ proc = Started

HttpNext ==
    \/ ClientRequest
    \/ ProviderCallback
    \/ \E c \in Calls : getAccessToken(c, CoreTokenResponses)
    \/ \E c \in Calls : Post(c)
    \/ \E c \in Calls : PushResponse(c, CorePushResponses)
    \/ \E c \in Calls : QueryResponse(c, CoreQueryResponses)

HttpSpec == HttpInit /\ [][HttpNext]_vars

\* a step in which a request was handled
Handled == hits'.requests # hits.requests

\* the request handled in this step asks for a protected endpoint without
\* the configured key
Unauthorized ==
    /\ \/ last'.request.method = "POST"
          /\ last'.request.url = "/api/v1/payments/initiate"
       \/ last'.request.method = "GET"
          /\ last'.request.url \in
                {"/api/v1/payments/status/" \o id : id \in CheckoutRequestIds}
    /\ last'.request.apiKey # "default-api-key-change-in-production"

\* nothing of the service moved: no controller ran, nothing went upstream
ServiceUntouched ==
    /\ calls' = calls
    /\ invocations' = invocations
    /\ upstream' = upstream
    /\ tokenRequests' = tokenRequests

\* the request handled in this step is a keyless one to an open endpoint
OpenEndpoint(path) ==
    /\ last'.request.url = path
    /\ last'.request.apiKey = Undefined

C20_CallbackUrlRouted ==
    (last.op = "http" /\ last.request.from = "provider") =>
        /\ last.handler = "handleSTKCallback"
        /\ last.status = 200

(***************************************************************************)
(* Results of the status query                                             *)
(***************************************************************************)

\* a status query has returned a TransactionStatus
QueryReturned == last.op = "query" /\ ~last.outcome.threw

\* C21: every TransactionStatus returned by querySTKPushStatus has amount
\* 0 and an empty phoneNumber, whatever the answer contains, and its
\* transactionId is the answer's MerchantRequestID.
C21_QueryZeroFields ==
    QueryReturned =>
        /\ last.outcome.value.amount = Num(0)
        /\ last.outcome.value.phoneNumber = ""
        /\ last.outcome.value.transactionId =
              last.response.data.MerchantRequestID

C21_Witness ==
    /\ QueryReturned
    /\ last.response.data.ResultCode = "0"
    /\ last.response.data.MerchantRequestID = "16813-1590513-1"
    /\ last.outcome.value.transactionId = "16813-1590513-1"

(***************************************************************************)
(* Order and number of the upstream requests of one call                   *)
(***************************************************************************)

\* the positions a call may move to from each position, one step at a time
Successors(pc) ==
    CASE pc = "idle" -> {"idle", "awaitToken", "token"}
      [] pc = "awaitToken" -> {"awaitToken", "token", "idle"}
      [] pc = "token" -> {"token", "awaitResponse"}
      [] OTHER -> {"awaitResponse", "idle"}

\* C22: an initiateSTKPush call posts its push request only once it holds
\* a token, does not post when the exchange fails, and ends with the
\* answer to its one push request, whatever that answer is: a call sends
\* at most the token request and one push request.
C22_TokenThenOnePush ==
    [][\A c \in Calls :
          /\ calls'[c].pc \in Successors(calls[c].pc)
          /\ (calls[c].pc # "awaitResponse" /\ calls'[c].pc = "awaitResponse") =>
                /\ calls[c].pc = "token"
                /\ calls[c].token \in Tokens
                /\ upstream'.authorization = "Bearer " \o calls[c].token
          /\ (calls[c].pc = "awaitToken" /\ calls'[c].pc = "idle") =>
                (last'.outcome.threw /\ upstream' = upstream)
          /\ (calls[c].pc = "awaitResponse" /\ calls'[c].pc = "idle") =>
                upstream' = upstream]_vars

\* a push request was rejected by the transport and the call ended there
C22_Witness ==
    /\ last.op = "initiate"
    /\ last.stage = "awaitResponse"
    /\ ~last.response.ok
    /\ last.outcome.threw
    /\ invocations = 1
    /\ tokenRequests = 1
    /\ calls[1].pc = "idle"

(***************************************************************************)
(* Request signature                                                       *)
(***************************************************************************)

\* a step in which call c posts its push or query request
Posted(c) == calls[c].pc = "token" /\ calls'[c].pc = "awaitResponse"

\* C23: the request a call posts carries the clock reading of that very
\* step (taken after the token was obtained) as Timestamp, and as Password
\* the base64 encoding of short code + passkey + that same Timestamp.
C23_FreshSignature ==
    [][\A c \in Calls :
          Posted(c) =>
            /\ upstream'.body.Timestamp = ToString(now \div 1000)
            /\ upstream'.body.Password =
                  "base64(" \o "174379" \o Passkey
                            \o upstream'.body.Timestamp \o ")"]_vars

\* the second call posted its request at a later clock reading than zero
C23_Witness ==
    /\ invocations = 2
    /\ now >= 1000
    /\ calls[1].pc = "awaitResponse"
    /\ "body" \in DOMAIN upstream
    /\ upstream.body.Timestamp = ToString(now \div 1000)

(***************************************************************************)
(* What POST /initiate lets through to the provider                        *)
(***************************************************************************)

\* the request handled in this step is a POST /initiate
InitiateHandled ==
    /\ Handled
    /\ last'.request.method = "POST"
    /\ last'.request.url = "/api/v1/payments/initiate"

\* the body handled in this step breaks the rule on amount or on phone
InvalidBody ==
    LET body == last'.request.body
        n == NumberOf(body.amount)
    IN  \/ ~(n.t = "num" /\ n.v >= 1 /\ n.v <= 70000)
        \/ ~(IsLocal(body.phoneNumber) \/ IsInternational(body.phoneNumber))

\* the push request sent in this step, if one is, is well formed
PushWellFormed ==
    ("body" \in DOMAIN upstream' /\ "PartyA" \in DOMAIN upstream'.body) =>
        /\ IsInternational(upstream'.body.PartyA)
        /\ upstream'.body.PhoneNumber = upstream'.body.PartyA
        /\ upstream'.body.PartyB = "174379"
        /\ upstream'.body.Amount.t = "num"
        /\ upstream'.body.Amount.v >= 1
        /\ upstream'.body.Amount.v <= 70000

\* C24 as stated: every push request sent for a POST /initiate has the
\* canonical phone as PartyA and PhoneNumber, the short code as PartyB and
\* an Amount within [1, 70000]; a body that fails validation is answered
\* 400 and causes no upstream request.
C24_AsClaimed ==
    [][/\ PushWellFormed
       /\ (InitiateHandled /\ InvalidBody) =>
             (last'.status = 400 /\ ServiceUntouched)]_vars

\* C24 (amended): as above, except that a body that fails validation is
\* answered 400 only if the request got as far as the validation: a rate
\* limiter may have answered 429, or the key check 401, before the body
\* was looked at.  No upstream request is caused in any of these cases.
C24_ValidatedPush ==
    [][/\ PushWellFormed
       /\ (InitiateHandled /\ InvalidBody) =>
             /\ \/ last'.status = 400 /\ last'.handler = "validateRequest"
                \/ last'.status = 401 /\ last'.handler = "authenticateApiKey"
                \/ last'.status = 429
                   /\ last'.handler \in {"rateLimiter", "paymentRateLimiter"}
             /\ (last'.request.apiKey = "default-api-key-change-in-production"
                 /\ last'.status # 429) => last'.status = 400
             /\ ServiceUntouched]_vars

\* a push request went upstream for a phone given in local format
C24_Witness ==
    /\ "body" \in DOMAIN upstream
    /\ "PartyA" \in DOMAIN upstream.body
    /\ upstream.body.PartyA =
          <<"2", "5", "4", "7", "1", "2", "3", "4", "5", "6", "7", "8">>
    /\ upstream.body.Amount = Num(100)
    /\ last.op = "http"
    /\ last.handler = "initiatePayment"
    /\ last.request.body.phoneNumber =
          <<"0", "7", "1", "2", "3", "4", "5", "6", "7", "8">>

(***************************************************************************)
(* Callback processing as a pure transformation                            *)
(***************************************************************************)

\* a step in which a callback was processed
CallbackProcessed == Handled /\ last'.handler = "handleSTKCallback"

\* C25: processing a callback sends nothing upstream and leaves the cached
\* token and its expiry as they were, and its result is the one function
\* of the payload, whatever the token state and the calls before it.
C25_CallbackPure ==
    [][CallbackProcessed =>
          /\ accessToken' = accessToken
          /\ tokenExpiry' = tokenExpiry
          /\ upstream' = upstream
          /\ tokenRequests' = tokenRequests
          /\ calls' = calls
          /\ last'.outcome = processSTKCallback(last'.request.body)]_vars

\* a callback was processed while a token was cached
C25_Witness ==
    /\ last.op = "http"
    /\ last.handler = "handleSTKCallback"
    /\ ~last.outcome.threw
    /\ last.outcome.value.status = "cancelled"
    /\ accessToken \in Tokens
    /\ tokenRequests = 1

(***************************************************************************)
(* The initiate endpoint's answer to the outcome of the service call       *)
(***************************************************************************)

\* the service call behind a POST /initiate has ended
InitiateEnded == last.op = "initiate"

\* the service returned a result with success = true
Succeeded == ~last.outcome.threw /\ last.outcome.value.success

\* C26: the initiate endpoint answers 200 exactly when the service result
\* has success = true, 400 with success = false when the provider reported
\* a business failure, and 500 from the error middleware when the service
\* threw; the body's success flag is true exactly on success.
C26_InitiateStatus ==
    InitiateEnded =>
        /\ last.answer.status = 200 <=> Succeeded
        /\ last.answer.body.success <=> Succeeded
        /\ (~last.outcome.threw /\ ~last.outcome.value.success) =>
              last.answer.status = 400
        /\ last.outcome.threw =>
              /\ last.answer.status = 500
              /\ last.answer.by = "errorHandler"

\* a business failure of the provider was answered 400
C26_Witness ==
    /\ InitiateEnded
    /\ ~last.outcome.threw
    /\ ~last.outcome.value.success
    /\ last.answer.status = 400
    /\ hits.requests >= 1

(***************************************************************************)
(* Shape of a TransactionStatus                                            *)
(***************************************************************************)

\* the provider's description of the result that was just mapped
DeliveredDesc ==
    IF last.op = "query" THEN last.response.data.ResultDesc
    ELSE last.input.Body.stkCallback.ResultDesc

\* a TransactionStatus was returned for a result the provider delivered
StatusReturned ==
    \/ QueryReturned /\ last.response.data.ResultCode # Undefined
    \/ CallbackReturned

\* C27: no TransactionStatus returned for a delivered provider result, by
\* the query or by the callback path, has status pending; errorMessage
\* carries the provider's description exactly when the status is not
\* success; mpesaReceiptNumber and transactionDate are present only when
\* the status is success.
C27_NoPendingResult ==
    StatusReturned =>
        LET ts == last.outcome.value
        IN  /\ ts.status # "pending"
            /\ ts.status # "success" => ts.errorMessage = DeliveredDesc
            /\ ts.status = "success" => ts.errorMessage = Undefined
            /\ ts.status # "success" =>
                  /\ ts.mpesaReceiptNumber = Undefined
                  /\ ts.transactionDate = Undefined

\* C28: formatPhoneNumber is idempotent: applied to a value it returned,
\* it succeeds and returns that value.
C28_FormatIdempotent ==
    (Formatted /\ ~last.outcome.threw) =>
        formatPhoneNumber(last.outcome.value) = Returned(last.outcome.value)

\* a number written with a plus sign and separators was formatted
C28_Witness ==
    /\ Formatted
    /\ last.input = <<"+", "2", "5", "4", "7", "1", "2", "-", "3", "4", "5",
                      " ", "6", "7", "8">>
    /\ last.outcome =
          Returned(<<"2", "5", "4", "7", "1", "2", "3", "4", "5", "6", "7",
                     "8">>)

(***************************************************************************)
(* Freshness of a returned token                                           *)
(***************************************************************************)

\* C29: a token handed to a call is either the one its own exchange just
\* obtained, or the cached one with a recorded expiry later than the
\* current time, hence stored less than 55 minutes earlier.
C29_ReturnedTokenFresh ==
    [][\A c \in Calls :
          /\ (Entered(c) /\ calls'[c].pc = "token") =>
                /\ calls'[c].token = accessToken
                /\ accessToken \in Tokens
                /\ tokenExpiry > now
                /\ now - (tokenExpiry - 55 * 60 * 1000) < 55 * 60 * 1000
          /\ Exchanged(c) =>
                /\ calls'[c].token = accessToken'
                /\ calls'[c].token \in Tokens
                /\ tokenExpiry' > now]_vars

\* a call got the cached token one millisecond before its recorded expiry
\* while the call that stored it was still waiting for its answer
C29_Witness ==
    /\ now = tokenExpiry - 1
    /\ now > 0
    /\ tokenRequests = 1
    /\ invocations = 2
    /\ calls[1].pc = "awaitResponse"
    /\ calls[2].pc = "token"
    /\ calls[2].token = accessToken
    /\ accessToken \in Tokens

(***************************************************************************)
(* Process life cycle: App.listen and App.gracefulShutdown                 *)
(***************************************************************************)

\* config.port (default)
Port == 3000

\* the delay of the forced shutdown, in milliseconds
ForceShutdownMs == 10000

\* the amount by which the clock advances while the process waits
ClockStepMs == 5000

Running == proc.exit = -1

ServiceIdle ==
    UNCHANGED <<accessToken, tokenExpiry, calls, tokenRequests, upstream,
                invocations, inbox, last, log, hits>>

\* app.listen(port) followed by server.close(callback): the server stops
\* accepting connections at once, and its callback is called when its
\* last connection has ended
Closed(server) == [server EXCEPT !.listening = FALSE, !.closing = TRUE]

\* App.listen: a server is started on the configured port and the handlers
\* of SIGTERM and SIGINT are registered
Listen ==
    /\ Running
    /\ proc.servers = <<>>
    /\ proc' = [proc EXCEPT !.servers = <<Server(Port)>>,
                            !.handlers = TRUE]
    /\ UNCHANGED now
    /\ ServiceIdle

\* a client opens a connection to a server that accepts connections
Connect ==
    /\ Running
    /\ \E i \in 1..Len(proc.servers) :
          /\ proc.servers[i].listening
          /\ proc.servers[i].connections < MaxConnections
          /\ proc' = [proc EXCEPT !.servers[i].connections = @ + 1]
    /\ UNCHANGED now
    /\ ServiceIdle

\* a connection ends
Disconnect ==
    /\ Running
    /\ \E i \in 1..Len(proc.servers) :
          /\ proc.servers[i].connections > 0
          /\ proc' = [proc EXCEPT !.servers[i].connections = @ - 1]
    /\ UNCHANGED now
    /\ ServiceIdle

\* App.gracefulShutdown, run for a signal: `this.app.listen()` starts one
\* more server, on any free port, and that server is closed; a timer is
\* set for the forced shutdown
gracefulShutdown ==
    /\ Running
    /\ proc.handlers
    /\ proc.signals < MaxSignals
    /\ \E signal \in {"SIGTERM", "SIGINT"} :
          proc' = [proc EXCEPT
                      !.servers = Append(@, Closed(Server(0))),
                      !.timers = @ \cup {now + ForceShutdownMs},
                      !.signals = @ + 1]
    /\ UNCHANGED now
    /\ ServiceIdle

\* the callback given to server.close(): called once the closed server has
\* no connection left; it ends the process with code 0
CloseCallback ==
    /\ Running
    /\ \E i \in 1..Len(proc.servers) :
          /\ proc.servers[i].closing
          /\ proc.servers[i].connections = 0
          /\ proc' = [proc EXCEPT !.servers[i].closing = FALSE,
                                  !.exit = 0]
    /\ UNCHANGED now
    /\ ServiceIdle

\* the timer of the forced shutdown fires: the process ends with code 1
ForceShutdown ==
    /\ Running
    /\ \E deadline \in proc.timers :
          /\ now >= deadline
          /\ proc' = [proc EXCEPT !.timers = @ \ {deadline}, !.exit = 1]
    /\ UNCHANGED now
    /\ ServiceIdle

\* time passes while the process runs; no timer is overrun by more than
\* one step
Wait ==
    /\ Running
    /\ proc.servers # <<>>
    /\ now < 2 * ForceShutdownMs
    /\ \A deadline \in proc.timers : now < deadline
    /\ now' = now + ClockStepMs
    /\ UNCHANGED proc
    /\ ServiceIdle

ShutdownNext ==
    \/ Listen
    \/ Connect
    \/ Disconnect
    \/ gracefulShutdown
    \/ CloseCallback
    \/ ForceShutdown
    \/ Wait

ShutdownSpec == Init /\ [][ShutdownNext]_vars

\* C30: once a signal has started the graceful shutdown, the server that
\* listen() started no longer accepts connections, and the process has
\* exited with code 0 only if that server has closed, with no connection
\* left.
C30_ClosesListeningServer ==
    /\ proc.signals > 0 => ~proc.servers[1].listening
    /\ proc.exit = 0 =>
          /\ ~proc.servers[1].listening
          /\ proc.servers[1].connections = 0

====
